---- MODULE Spec2Model ----
(***************************************************************************)
(* Matching service (src/unnamed/part_005, lines 1-446) of Robust-Banker:  *)
(* the in-memory order book, the matching loop and the settlement calls    *)
(* to the wallet/portfolio service, plus the history record of completed   *)
(* orders.  Prices and amounts are float64 in the code; every value used   *)
(* here is a small whole number, which float64 represents exactly.         *)
(* Further down: the same subscriber with a log of the delivered messages  *)
(* (SpecBus, SpecReplay) and the placement and cancel requests of the      *)
(* order service, src/app/src/order-service/main.go (SpecIntake), and the  *)
(* deposit, history-record and stock-creation requests (SpecServices).     *)
(* SpecRestart adds a restart of the process, SpecDecode payloads that     *)
(* json.Unmarshal rejects; SpecArrivals and SpecLive take new orders only. *)
(***************************************************************************)
EXTENDS Integers, Sequences, FiniteSets, TLC

\* ------------------------------------------------------------------ bounds
MaxOrders == 3      \* number of order events published in one behaviour
MaxQty == 2         \* largest quantity an order event carries
MaxPrice == 2       \* largest limit price an order event carries
NumUsers == 2
NumStocks == 2
InitCash == 3       \* every wallet's balance when the model starts
InitShares == 2     \* every holding's quantity_owned when the model starts

Users == 1..NumUsers
Stocks == 1..NumStocks
OrderIds == 1..MaxOrders

VARIABLES
    books,      \* books[stockID] = [Buys, Sells], the in-memory OrderBook
    wallet,     \* wallet[user] = balance (user_wallet.balance)
    holdings,   \* holdings[user][stock] = quantity_owned (stock_portfolio)
    history,    \* rows of stock_transactions written by the history service
    pc,         \* where the subscriber goroutine is inside handleOrderEvent
    cur,        \* locals of the running matchOrders / executeTrade
    pre,        \* wallet and holdings when the running executeTrade was entered
    nextId,     \* next stock_tx_id / created instant handed out by intake
    channel,    \* messages the Redis channel has delivered to subscribeOrders
    store,      \* rows of the orders_keyspace tables (the Order Store)
    resp,       \* the last request a service served, and its response
    stocks      \* stocks[service] = stock names of its stocks table, by stock_id

vars == <<books, wallet, holdings, history, pc, cur, pre, nextId, channel, store, resp,
          stocks>>

\* ------------------------------------------------------------- pure helpers
\* variant of min that returns its first argument
minFirst(a, b) == a

min(a, b) == IF a < b THEN a ELSE b

\* variant of canMatch that lets every pair cross
canMatchAlways(buy, sell) == TRUE

\* variant of canMatch that compares the prices only
canMatchPriceOnly(buy, sell) == buy.price >= sell.price

canMatch(buy, sell) ==
    IF buy.otype = "MARKET" \/ sell.otype = "MARKET" THEN TRUE
    ELSE buy.price >= sell.price

\* variant of filterNonZero that keeps every entry
filterNonZeroKeepAll(orders) == orders

filterNonZero(orders) == SelectSeq(orders, LAMBDA o : o.qty > 0)

\* variant of filterOutTxID that also drops the orders placed after txID
filterOutFromTxID(orders, txID) == SelectSeq(orders, LAMBDA o : o.id < txID)

\* variant of filterOutTxID that empties the side
filterOutEverything(orders, txID) == <<>>

filterOutTxID(orders, txID) == SelectSeq(orders, LAMBDA o : o.id # txID)

\* variant of addOrder that puts the new order in front of its side
addOrderFront(bks, o) ==
    IF o.isBuy
    THEN [bks EXCEPT ![o.stock].Buys = <<o>> \o @]
    ELSE [bks EXCEPT ![o.stock].Sells = <<o>> \o @]

\* variant of addOrder that files every order in the first stock's book
addOrderFirstBook(bks, o) ==
    IF o.isBuy
    THEN [bks EXCEPT ![1].Buys = Append(@, o)]
    ELSE [bks EXCEPT ![1].Sells = Append(@, o)]

\* variant of addOrder that drops a MARKET order
addOrderLimitOnly(bks, o) ==
    IF o.otype = "MARKET" THEN bks
    ELSE IF o.isBuy
    THEN [bks EXCEPT ![o.stock].Buys = Append(@, o)]
    ELSE [bks EXCEPT ![o.stock].Sells = Append(@, o)]

\* append to the side the order belongs to
addOrder(bks, o) ==
    IF o.isBuy
    THEN [bks EXCEPT ![o.stock].Buys = Append(@, o)]
    ELSE [bks EXCEPT ![o.stock].Sells = Append(@, o)]

\* variant of removeOrder that removes nothing
removeOrderNothing(bks, stockTxID) == bks

\* variant of removeOrder that drops the head of every side instead
removeOrderHeads(bks, stockTxID) ==
    [s \in Stocks |->
        [Buys |-> IF bks[s].Buys = <<>> THEN <<>> ELSE Tail(bks[s].Buys),
         Sells |-> IF bks[s].Sells = <<>> THEN <<>> ELSE Tail(bks[s].Sells)]]

\* every book loses the entries carrying stockTxID
removeOrder(bks, stockTxID) ==
    [s \in Stocks |->
        [Buys |-> filterOutTxID(bks[s].Buys, stockTxID),
         Sells |-> filterOutTxID(bks[s].Sells, stockTxID)]]

\* variant of tradePrice without the fallback to the buy price
tradePriceSellOnly(buy, sell) == sell.price

\* tradePrice of executeTrade
tradePrice(buy, sell) ==
    IF sell.price = 0 /\ buy.price # 0 THEN buy.price ELSE sell.price

\* The nested loops of matchOrders from position (i, j) on: the next pair
\* (i, j) for which executeTrade is called, or done when the loops end.
RECURSIVE NextMatch(_, _, _)
NextMatch(ob, i, j) ==
    IF i > Len(ob.Buys) THEN [done |-> TRUE, i |-> 0, j |-> 0]
    ELSE IF ob.Buys[i].qty <= 0 THEN NextMatch(ob, i + 1, 1)
    ELSE IF j > Len(ob.Sells) THEN NextMatch(ob, i + 1, 1)
    ELSE IF ob.Sells[j].qty <= 0 THEN NextMatch(ob, i, j + 1)
    ELSE IF canMatch(ob.Buys[i], ob.Sells[j]) THEN [done |-> FALSE, i |-> i, j |-> j]
    ELSE NextMatch(ob, i, j + 1)

\* err: executeTrade returned an error; step: the step its message names
\* (1 deduct buyer, 2 remove seller shares, 3 add buyer shares, 4 credit
\* seller; 0 when there is none)
NoCur ==
    [stock |-> 0, i |-> 0, j |-> 0, qty |-> 0, cost |-> 0, err |-> FALSE, step |-> 0,
     comp |-> <<>>, compFailed |-> FALSE, taker |-> 0]

NoPre == [wallet |-> <<>>, holdings |-> <<>>]

\* ------------------------------------------------- wallet/portfolio service
\* POST /addMoneyToWallet: a non-positive amount is answered 400
addMoneyAccepted(amt) == amt > 0

addMoneyToWallet(w, u, amt) == [w EXCEPT ![u] = @ + amt]

\* POST /deductMoneyFromWallet: refused when the balance does not cover it
deductMoneyAccepted(w, u, amt) == w[u] >= amt

deductMoneyFromWallet(w, u, amt) == [w EXCEPT ![u] = @ - amt]

\* POST /updateStockPortfolio: quantity_owned never goes below zero
updatePortfolioAccepted(h, u, s, delta) == h[u][s] + delta >= 0

updateStockPortfolio(h, u, s, delta) == [h EXCEPT ![u][s] = @ + delta]

\* the three calls executeTrade makes, as values (for the compensation list)
callDeductMoney(u, amt) == [kind |-> "deduct", user |-> u, stock |-> 0, amt |-> amt]
\* variant of callAddMoney that asks for twice the amount
callAddMoneyTwice(u, amt) == [kind |-> "add", user |-> u, stock |-> 0, amt |-> 2 * amt]

callAddMoney(u, amt) == [kind |-> "add", user |-> u, stock |-> 0, amt |-> amt]
callUpdatePortfolio(u, s, delta) ==
    [kind |-> "portfolio", user |-> u, stock |-> s, amt |-> delta]

CallAccepted(c, w, h) ==
    CASE c.kind = "deduct" -> deductMoneyAccepted(w, c.user, c.amt)
      [] c.kind = "add" -> addMoneyAccepted(c.amt)
      [] c.kind = "portfolio" -> updatePortfolioAccepted(h, c.user, c.stock, c.amt)

WalletAfter(c, w) ==
    CASE c.kind = "deduct" -> deductMoneyFromWallet(w, c.user, c.amt)
      [] c.kind = "add" -> addMoneyToWallet(w, c.user, c.amt)
      [] c.kind = "portfolio" -> w

HoldingsAfter(c, h) ==
    IF c.kind = "portfolio" THEN updateStockPortfolio(h, c.user, c.stock, c.amt) ELSE h

\* doWalletCall: the call is applied and answered 200 (ok, only when the
\* service accepts it), or it returns an error and nothing was applied.
doWalletCall(c, ok) ==
    IF ok
    THEN /\ CallAccepted(c, wallet, holdings)
         /\ wallet' = WalletAfter(c, wallet)
         /\ holdings' = HoldingsAfter(c, holdings)
    ELSE UNCHANGED <<wallet, holdings>>

\* ------------------------------------------------------------------- state
EmptyBook == [Buys |-> <<>>, Sells |-> <<>>]

\* no request has been answered yet
NoReq == [otype |-> "", price |-> 0, qty |-> 0]

NoResp == [op |-> "", req |-> NoReq, code |-> 0, success |-> FALSE, data |-> 0]

Init ==
    /\ books = [s \in Stocks |-> EmptyBook]
    /\ wallet = [u \in Users |-> InitCash]
    /\ holdings = [u \in Users |-> [s \in Stocks |-> InitShares]]
    /\ history = <<>>
    /\ pc = "idle"
    /\ cur = NoCur
    /\ pre = NoPre
    /\ nextId = 1
    /\ channel = <<>>
    /\ store = <<>>
    /\ resp = NoResp
    /\ stocks = [svc \in {"order", "wallet"} |-> [i \in Stocks |-> i]]

CurBuy == books[cur.stock].Buys[cur.i]
CurSell == books[cur.stock].Sells[cur.j]

\* matchOrders resumed at loop position (i, j) over the books bks: either the
\* next executeTrade is entered, or the loops end and both sides are filtered.
ContinueMatch(bks, stock, i, j, taker) ==
    LET ob == bks[stock]
        m == NextMatch(ob, i, j)
    IN  IF m.done
        THEN /\ books' = [bks EXCEPT ![stock] =
                            [Buys |-> filterNonZero(ob.Buys),
                             Sells |-> filterNonZero(ob.Sells)]]
             /\ pc' = "idle"
             /\ cur' = NoCur
             /\ pre' = NoPre
        ELSE LET buy == ob.Buys[m.i]
                 sell == ob.Sells[m.j]
                 qty == min(buy.qty, sell.qty)
             IN  /\ books' = bks
                 /\ pc' = "deductBuyer"
                 /\ cur' = [stock |-> stock, i |-> m.i, j |-> m.j, qty |-> qty,
                            cost |-> qty * tradePrice(buy, sell), err |-> FALSE, step |-> 0,
                            comp |-> <<>>, compFailed |-> FALSE, taker |-> taker]
                 /\ pre' = [wallet |-> wallet, holdings |-> holdings]

\* ----------------------------------------------------------------- actions
\* handleOrderEvent, order_status # "CANCELLED": addOrder, then matchOrders
HandleNewOrder ==
    /\ pc = "idle"
    /\ nextId <= MaxOrders
    /\ \E s \in Stocks, u \in Users, isBuy \in BOOLEAN, p \in 0..MaxPrice, q \in 0..MaxQty :
        LET o == [id |-> nextId, stock |-> s, user |-> u, isBuy |-> isBuy,
                  otype |-> IF p = 0 THEN "MARKET" ELSE "LIMIT",
                  qty |-> q, price |-> p, status |-> "IN_PROGRESS",
                  created |-> nextId]
        IN  ContinueMatch(addOrder(books, o), s, 1, 1, o.id)
    /\ nextId' = nextId + 1
    /\ UNCHANGED <<wallet, holdings, history, channel, store, resp, stocks>>

\* handleOrderEvent, order_status = "CANCELLED": removeOrder
HandleCancel ==
    /\ pc = "idle"
    /\ \E id \in OrderIds : books' = removeOrder(books, id)
    /\ UNCHANGED <<wallet, holdings, history, pc, cur, pre, nextId, channel, store, resp, stocks>>

\* variant of DeductBuyer that goes on to step 2 after a failed debit
DeductBuyerGoesOn ==
    /\ pc = "deductBuyer"
    /\ \E ok \in BOOLEAN :
        /\ doWalletCall(callDeductMoney(CurBuy.user, cur.cost), ok)
        /\ pc' = "removeSellerShares"
        /\ cur' = IF ok THEN cur ELSE [cur EXCEPT !.err = TRUE, !.step = 1]
    /\ UNCHANGED <<books, history, pre, nextId, channel, store, resp, stocks>>

\* executeTrade step 1: callDeductMoney(buy.UserID, cost)
DeductBuyer ==
    /\ pc = "deductBuyer"
    /\ \E ok \in BOOLEAN :
        /\ doWalletCall(callDeductMoney(CurBuy.user, cur.cost), ok)
        /\ IF ok
           THEN pc' = "removeSellerShares" /\ UNCHANGED cur
           ELSE pc' = "applyTrade" /\ cur' = [cur EXCEPT !.err = TRUE, !.step = 1]
    /\ UNCHANGED <<books, history, pre, nextId, channel, store, resp, stocks>>

\* variant of RemoveSellerShares that returns the error without a rollback
RemoveSellerSharesNoRollback ==
    /\ pc = "removeSellerShares"
    /\ \E ok \in BOOLEAN :
        /\ doWalletCall(callUpdatePortfolio(CurSell.user, CurSell.stock, -cur.qty), ok)
        /\ IF ok
           THEN pc' = "addBuyerShares" /\ UNCHANGED cur
           ELSE pc' = "applyTrade" /\ cur' = [cur EXCEPT !.err = TRUE, !.step = 2]
    /\ UNCHANGED <<books, history, pre, nextId, channel, store, resp, stocks>>

\* executeTrade step 2: callUpdatePortfolio(sell.UserID, sell.StockID, -qty)
RemoveSellerShares ==
    /\ pc = "removeSellerShares"
    /\ \E ok \in BOOLEAN :
        /\ doWalletCall(callUpdatePortfolio(CurSell.user, CurSell.stock, -cur.qty), ok)
        /\ IF ok
           THEN pc' = "addBuyerShares" /\ UNCHANGED cur
           ELSE /\ pc' = "compensate"
                /\ cur' = [cur EXCEPT !.err = TRUE, !.step = 2,
                              !.comp = <<callAddMoney(CurBuy.user, cur.cost)>>]
    /\ UNCHANGED <<books, history, pre, nextId, channel, store, resp, stocks>>

\* executeTrade step 3: callUpdatePortfolio(buy.UserID, buy.StockID, +qty)
AddBuyerShares ==
    /\ pc = "addBuyerShares"
    /\ \E ok \in BOOLEAN :
        /\ doWalletCall(callUpdatePortfolio(CurBuy.user, CurBuy.stock, cur.qty), ok)
        /\ IF ok
           THEN pc' = "creditSeller" /\ UNCHANGED cur
           ELSE /\ pc' = "compensate"
                /\ cur' = [cur EXCEPT !.err = TRUE, !.step = 3,
                              !.comp = <<callAddMoney(CurBuy.user, cur.cost),
                                         callUpdatePortfolio(CurSell.user, CurSell.stock, cur.qty)>>]
    /\ UNCHANGED <<books, history, pre, nextId, channel, store, resp, stocks>>

\* executeTrade step 4: callAddMoney(sell.UserID, cost)
CreditSeller ==
    /\ pc = "creditSeller"
    /\ \E ok \in BOOLEAN :
        /\ doWalletCall(callAddMoney(CurSell.user, cur.cost), ok)
        /\ IF ok
           THEN pc' = "applyTrade" /\ UNCHANGED cur
           ELSE /\ pc' = "compensate"
                /\ cur' = [cur EXCEPT !.err = TRUE, !.step = 4,
                              !.comp = <<callDeductMoney(CurBuy.user, cur.cost),
                                         callUpdatePortfolio(CurBuy.user, CurBuy.stock, -cur.qty),
                                         callUpdatePortfolio(CurSell.user, CurSell.stock, cur.qty)>>]
    /\ UNCHANGED <<books, history, pre, nextId, channel, store, resp, stocks>>

\* the next rollback call of executeTrade; its error is discarded (_ =)
Compensate ==
    /\ pc = "compensate"
    /\ \E ok \in BOOLEAN :
        /\ doWalletCall(Head(cur.comp), ok)
        /\ cur' = [cur EXCEPT !.comp = Tail(@),
                              !.compFailed = @ \/ ~ok]
    /\ pc' = IF Len(cur.comp) = 1 THEN "applyTrade" ELSE "compensate"
    /\ UNCHANGED <<books, history, pre, nextId, channel, store, resp, stocks>>

\* recordFinalTransaction: the row the history service inserts for o
HistoryRow(o) ==
    [id |-> o.id, user |-> o.user, stock |-> o.stock, qty |-> o.qty,
     price |-> o.price, status |-> "COMPLETED"]

recordFinalTransaction(h, o, ok) ==
    IF o.status = "COMPLETED" /\ ok THEN Append(h, HistoryRow(o)) ELSE h

\* variant of AfterFill that marks every traded order COMPLETED
AfterFillCompleted(o, qty) ==
    [o EXCEPT !.qty = @ - qty, !.status = "COMPLETED"]

\* an order of matchOrders after buy.Quantity -= qty and the status update
AfterFill(o, qty) ==
    [o EXCEPT !.qty = @ - qty,
              !.status = IF o.qty - qty = 0 THEN "COMPLETED" ELSE "PARTIALLY_COMPLETE"]

\* variant of ApplyTrade that leaves the quantities as they are and takes the
\* same pair again
ApplyTradeSamePair ==
    /\ pc = "applyTrade"
    /\ ContinueMatch(books, cur.stock, cur.i, cur.j, cur.taker)
    /\ UNCHANGED <<wallet, holdings, history, nextId, channel, store, resp, stocks>>

\* matchOrders after executeTrade returned (its error is only logged):
\* quantities, statuses, history records, then the loops go on
ApplyTrade ==
    /\ pc = "applyTrade"
    /\ LET buy == AfterFill(CurBuy, cur.qty)
           sell == AfterFill(CurSell, cur.qty)
           bks == [books EXCEPT ![cur.stock].Buys[cur.i] = buy,
                                ![cur.stock].Sells[cur.j] = sell]
       IN  /\ \E okB, okS \in BOOLEAN :
                /\ (buy.status # "COMPLETED" => okB)
                /\ (sell.status # "COMPLETED" => okS)
                /\ history' = recordFinalTransaction(
                                 recordFinalTransaction(history, buy, okB), sell, okS)
           /\ ContinueMatch(bks, cur.stock, cur.i, cur.j + 1, cur.taker)
    /\ UNCHANGED <<wallet, holdings, nextId, channel, store, resp, stocks>>

Next ==
    \/ HandleNewOrder
    \/ HandleCancel
    \/ DeductBuyer
    \/ RemoveSellerShares
    \/ AddBuyerShares
    \/ CreditSeller
    \/ Compensate
    \/ ApplyTrade

Spec == Init /\ [][Next]_vars

\* ------------------------------------------------- the channel, with a log
\* The same subscriber, with the messages it was handed kept in channel (in
\* delivery order), so that a message can be delivered again and a cancel
\* can be told from the orders that came before it.
BusMaxOrders == 2   \* order events first published in one behaviour
BusMaxEvents == 4   \* messages the channel delivers in one behaviour

BusOrderIds == 1..BusMaxOrders

\* the JSON of a new order, as the subscriber decodes it
NewOrderEvent(id, s, u, isBuy, p, q) ==
    [id |-> id, stock |-> s, user |-> u, isBuy |-> isBuy,
     otype |-> IF p = 0 THEN "MARKET" ELSE "LIMIT",
     qty |-> q, price |-> p, status |-> "IN_PROGRESS", created |-> id]

\* the JSON of a cancel: only stock_tx_id and order_status are read
CancelEvent(id) ==
    [id |-> id, stock |-> 0, user |-> 0, isBuy |-> FALSE, otype |-> "",
     qty |-> 0, price |-> 0, status |-> "CANCELLED", created |-> 0]

\* handleOrderEvent on a decoded message o
handleOrderEvent(o) ==
    IF o.status = "CANCELLED"
    THEN /\ books' = removeOrder(books, o.id)
         /\ UNCHANGED <<pc, cur, pre>>
    ELSE ContinueMatch(addOrder(books, o), o.stock, 1, 1, o.id)

\* the first delivery of a new order's message
DeliverNewOrder ==
    /\ pc = "idle"
    /\ nextId <= BusMaxOrders
    /\ Len(channel) < BusMaxEvents
    /\ \E s \in Stocks, u \in Users, isBuy \in BOOLEAN, p \in 0..MaxPrice, q \in 1..MaxQty :
        LET o == NewOrderEvent(nextId, s, u, isBuy, p, q)
        IN  /\ handleOrderEvent(o)
            /\ channel' = Append(channel, o)
    /\ nextId' = nextId + 1
    /\ UNCHANGED <<wallet, holdings, history, store, resp, stocks>>

\* the delivery of a cancel message
DeliverCancel ==
    /\ pc = "idle"
    /\ Len(channel) < BusMaxEvents
    /\ \E id \in BusOrderIds :
        /\ handleOrderEvent(CancelEvent(id))
        /\ channel' = Append(channel, CancelEvent(id))
    /\ UNCHANGED <<wallet, holdings, history, nextId, store, resp, stocks>>

\* a message the channel has delivered before is delivered again
Redeliver ==
    /\ pc = "idle"
    /\ Len(channel) < BusMaxEvents
    /\ \E k \in DOMAIN channel :
        /\ handleOrderEvent(channel[k])
        /\ channel' = Append(channel, channel[k])
    /\ UNCHANGED <<wallet, holdings, history, nextId, store, resp, stocks>>

NextBus ==
    \/ DeliverNewOrder
    \/ DeliverCancel
    \/ DeductBuyer
    \/ RemoveSellerShares
    \/ AddBuyerShares
    \/ CreditSeller
    \/ Compensate
    \/ ApplyTrade

\* every message is delivered once
SpecBus == Init /\ [][NextBus]_vars

NextReplay ==
    \/ NextBus
    \/ Redeliver

\* at-least-once delivery
SpecReplay == Init /\ [][NextReplay]_vars

ArrMaxPrice == 1    \* largest limit price an arriving order carries

\* ---- payloads json.Unmarshal rejects
\* the Order value before any field is decoded
ZeroOrder ==
    [id |-> 0, stock |-> 0, user |-> 0, isBuy |-> FALSE, otype |-> "",
     qty |-> 0, price |-> 0, status |-> "", created |-> 0]

\* A payload is text: kind "json" is the JSON of the order o; kind "invalid"
\* is text that is no JSON value; kind "mistyped" is the JSON of o with a
\* string where the quantity belongs.

\* variant of Unmarshal that reports no error for a field of the wrong type
UnmarshalLenient(payload) ==
    CASE payload.kind = "json" -> [err |-> FALSE, o |-> payload.o]
      [] payload.kind = "invalid" -> [err |-> TRUE, o |-> ZeroOrder]
      [] payload.kind = "mistyped" -> [err |-> FALSE, o |-> [payload.o EXCEPT !.qty = 0]]

\* json.Unmarshal([]byte(payload), &o): invalid text is refused before any
\* field is set; a field of the wrong type is skipped, the other fields are
\* decoded, and the error is returned
Unmarshal(payload) ==
    CASE payload.kind = "json" -> [err |-> FALSE, o |-> payload.o]
      [] payload.kind = "invalid" -> [err |-> TRUE, o |-> ZeroOrder]
      [] payload.kind = "mistyped" -> [err |-> TRUE, o |-> [payload.o EXCEPT !.qty = 0]]

\* handleOrderEvent(msg.Payload)
handlePayload(payload) ==
    IF Unmarshal(payload).err
    THEN UNCHANGED <<books, pc, cur, pre>>
    ELSE handleOrderEvent(Unmarshal(payload).o)

\* the rejected payloads: text that is no JSON, and the JSON of a cancel with
\* a mistyped field
UndecodablePayloads ==
    {[kind |-> "invalid", o |-> ZeroOrder]}
        \cup {[kind |-> "mistyped", o |-> CancelEvent(id)] : id \in BusOrderIds}

\* the delivery of a message whose payload Unmarshal rejects; the log keeps
\* the payload
DeliverUndecodable ==
    /\ pc = "idle"
    /\ Len(channel) < BusMaxEvents
    /\ \E payload \in UndecodablePayloads :
        /\ handlePayload(payload)
        /\ channel' = Append(channel, payload)
    /\ UNCHANGED <<wallet, holdings, history, nextId, store, resp, stocks>>

NextDecode ==
    \/ DeliverNewOrder
    \/ DeliverUndecodable
    \/ DeductBuyer
    \/ RemoveSellerShares
    \/ AddBuyerShares
    \/ CreditSeller
    \/ Compensate
    \/ ApplyTrade

\* new orders are delivered once each; other payloads are not the JSON of an
\* order
SpecDecode == Init /\ [][NextDecode]_vars

\* the first delivery of a new order's message, with no cancel and no second
\* delivery in the behaviour: up to MaxOrders orders arrive
DeliverArrival ==
    /\ pc = "idle"
    /\ nextId <= MaxOrders
    /\ \E s \in Stocks, u \in Users, isBuy \in BOOLEAN, p \in 0..ArrMaxPrice, q \in 1..MaxQty :
        LET o == NewOrderEvent(nextId, s, u, isBuy, p, q)
        IN  /\ handleOrderEvent(o)
            /\ channel' = Append(channel, o)
    /\ nextId' = nextId + 1
    /\ UNCHANGED <<wallet, holdings, history, store, resp, stocks>>

NextArrivals ==
    \/ DeliverArrival
    \/ DeductBuyer
    \/ RemoveSellerShares
    \/ AddBuyerShares
    \/ CreditSeller
    \/ Compensate
    \/ ApplyTrade

\* every order's message is delivered once, in the order of the ids
SpecArrivals == Init /\ [][NextArrivals]_vars

LiveNumStocks == 1  \* stocks that receive orders in SpecLive

\* handleOrderEvent for a new order of one of the first LiveNumStocks stocks
HandleLiveOrder ==
    /\ pc = "idle"
    /\ nextId <= MaxOrders
    /\ \E s \in 1..LiveNumStocks, u \in Users, isBuy \in BOOLEAN,
          p \in 0..ArrMaxPrice, q \in 1..MaxQty :
        handleOrderEvent(NewOrderEvent(nextId, s, u, isBuy, p, q))
    /\ nextId' = nextId + 1
    /\ UNCHANGED <<wallet, holdings, history, channel, store, resp, stocks>>

NextLive ==
    \/ HandleLiveOrder
    \/ DeductBuyer
    \/ RemoveSellerShares
    \/ AddBuyerShares
    \/ CreditSeller
    \/ Compensate
    \/ ApplyTrade

\* new orders only, with every wallet, portfolio and history call returning:
\* a call that was issued gets its answer (or its 10 s timeout), so the step
\* that follows it is taken
SpecLive ==
    /\ Init /\ [][NextLive]_vars
    /\ WF_vars(DeductBuyer)
    /\ WF_vars(RemoveSellerShares)
    /\ WF_vars(AddBuyerShares)
    /\ WF_vars(CreditSeller)
    /\ WF_vars(Compensate)
    /\ WF_vars(ApplyTrade)

\* the matching service process is started again: main begins with the empty
\* books map and subscribes; nothing is read from the Order Store, and Redis
\* pub/sub hands a new subscriber no earlier message.  The wallet, portfolio
\* and history services keep their tables.
Restart ==
    /\ books' = [s \in Stocks |-> EmptyBook]
    /\ pc' = "idle"
    /\ cur' = NoCur
    /\ pre' = NoPre
    /\ UNCHANGED <<wallet, holdings, history, nextId, channel, store, resp, stocks>>

NextRestart ==
    \/ NextBus
    \/ Restart

\* every message is delivered once, and the engine may crash and restart
SpecRestart == Init /\ [][NextRestart]_vars

\* --------------------------------------------------------- order service
\* POST /engine/placeStockOrder and /engine/cancelStockTransaction of the
\* order service (src/app/src/order-service/main.go, lines 1-617).
IntakeMaxOrders == 2    \* orders the order service stores in one behaviour

\* the order_type strings a request is sent with
OrderTypeInputs == {"MARKET", "LIMIT", "market", "Limit", "STOP"}

\* strings.ToUpper on those strings
ToUpper(t) ==
    CASE t = "market" -> "MARKET"
      [] t = "Limit" -> "LIMIT"
      [] OTHER -> t

\* variant of quantityRejected that lets a quantity of 0 through
quantityRejectedBelowZero(q) == q < 0

\* placeStockOrder: request.Quantity <= 0
quantityRejected(q) == q <= 0

\* placeMarketOrder: request.Price != 0
marketPriceRejected(p) == p # 0

\* placeLimitOrder: request.Price <= 0
limitPriceRejected(p) == p <= 0

\* the HTTP status placeStockOrder answers a decoded request with
placeStatus(req, dbOk) ==
    IF quantityRejected(req.qty) THEN 400
    ELSE IF ToUpper(req.otype) = "MARKET"
         THEN IF marketPriceRejected(req.price) THEN 400
              ELSE IF dbOk THEN 200 ELSE 500
    ELSE IF ToUpper(req.otype) = "LIMIT"
         THEN IF limitPriceRejected(req.price) THEN 400
              ELSE IF dbOk THEN 200 ELSE 500
    ELSE 400

\* the row placeMarketOrder / placeLimitOrder insert
StoreRow(id, u, s, isBuy, req) ==
    [id |-> id, stock |-> s, user |-> u, isBuy |-> isBuy,
     otype |-> ToUpper(req.otype), qty |-> req.qty,
     price |-> IF ToUpper(req.otype) = "MARKET" THEN 0 ELSE req.price,
     status |-> "IN_PROGRESS", created |-> id]

\* c.JSON(code, Response{Success, Data}): Data is nil on success
Respond(op, req, code) ==
    resp' = [op |-> op, req |-> req, code |-> code, success |-> (code = 200),
             data |-> 0]

\* POST /engine/placeStockOrder
PlaceStockOrder ==
    /\ nextId <= IntakeMaxOrders
    /\ \/ \* checkAuthorization: no or bad X-User-ID
          /\ Respond("place", NoReq, 401)
          /\ UNCHANGED <<store, nextId>>
       \/ \* ShouldBindJSON fails
          /\ Respond("place", NoReq, 400)
          /\ UNCHANGED <<store, nextId>>
       \/ \E t \in OrderTypeInputs, p \in -1..MaxPrice, q \in -1..MaxQty, dbOk \in BOOLEAN :
            LET req == [otype |-> t, price |-> p, qty |-> q]
                code == placeStatus(req, dbOk)
            IN  /\ Respond("place", req, code)
                /\ IF code = 200
                   THEN /\ \E u \in Users, s \in Stocks, isBuy \in BOOLEAN :
                              store' = Append(store, StoreRow(nextId, u, s, isBuy, req))
                        /\ nextId' = nextId + 1
                   ELSE UNCHANGED <<store, nextId>>
    /\ UNCHANGED <<books, wallet, holdings, history, pc, cur, pre, channel, stocks>>

\* POST /engine/cancelStockTransaction: "For now, we simply respond success"
CancelStockTransaction ==
    /\ \/ \* checkAuthorization fails, or ShouldBindJSON fails
          \E code \in {401, 400} : Respond("cancel", NoReq, code)
       \/ \E u \in Users, id \in 1..IntakeMaxOrders :
            Respond("cancel", [id |-> id, user |-> u], 200)
    /\ UNCHANGED <<books, wallet, holdings, history, pc, cur, pre, nextId, channel, store,
                   stocks>>

NextIntake ==
    \/ PlaceStockOrder
    \/ CancelStockTransaction

SpecIntake == Init /\ [][NextIntake]_vars

\* ------------------------------------------- requests served by the services
MaxBalance == 5     \* deposits stop once a balance has reached this
MaxDeposit == 2     \* largest amount a deposit request carries
HistMaxIds == 2     \* stock_tx_ids a history record request carries
HistMaxRows == 2    \* rows of stock_transactions in one behaviour
NewStockNames == 1  \* stock names not yet in the stocks tables

HistIds == 1..HistMaxIds

\* stock names are numbered; 0 is the empty string
StockNameInputs == 0..(NumStocks + NewStockNames)

UserTypeInputs == {"COMPANY", "CUSTOMER", "ADMIN", ""}

\* POST /addMoneyToWallet of the wallet service: the body carries the amount
\* only, the user comes from X-User-ID
PostAddMoneyToWallet ==
    /\ \E u \in Users, amt \in -1..MaxDeposit :
         /\ wallet[u] + amt <= MaxBalance
         /\ IF addMoneyAccepted(amt)
            THEN /\ wallet' = addMoneyToWallet(wallet, u, amt)
                 /\ Respond("addMoney", [user |-> u, amount |-> amt], 200)
            ELSE /\ UNCHANGED wallet
                 /\ Respond("addMoney", [user |-> u, amount |-> amt], 400)
    /\ UNCHANGED <<books, holdings, history, pc, cur, pre, nextId, channel, store, stocks>>

\* the request body recordFinalTransaction posts for a completed order
RecordBody(id) ==
    [id |-> id, user |-> 1, stock |-> 1, qty |-> 0, price |-> 1,
     status |-> "COMPLETED"]

\* recordTransactionHandler: a plain INSERT of the posted order; the body has
\* no created field, so time_stamp is time.Now() and the key
\* (stock_tx_id, time_stamp) is new on every request
recordTransactionHandler(h, o, ok) ==
    IF ok
    THEN Append(h, [id |-> o.id, user |-> o.user, stock |-> o.stock,
                    qty |-> o.qty, price |-> o.price, status |-> o.status])
    ELSE h

\* POST /internal/recordStockTransaction of the history service
PostRecordStockTransaction ==
    /\ Len(history) < HistMaxRows
    /\ \E id \in HistIds, ok \in BOOLEAN :
         /\ history' = recordTransactionHandler(history, RecordBody(id), ok)
         /\ Respond("record", [id |-> id], IF ok THEN 200 ELSE 500)
    /\ UNCHANGED <<books, wallet, holdings, pc, cur, pre, nextId, channel, store, stocks>>

\* checkCompanyAuthorization returns 0 (after answering 401) exactly when
\* userType != "COMPANY" && userType == "CUSTOMER"
checkCompanyAuthorization(userType) ==
    IF userType # "COMPANY" /\ userType = "CUSTOMER" THEN 0 ELSE 1

HasStock(svc, name) == \E i \in DOMAIN stocks[svc] : stocks[svc][i] = name

\* POST /setup/createStock of the order service: the new stock_id is
\* COUNT(*) + 1
CreateStock ==
    /\ \/ \* checkAuthorization: no or bad X-User-ID
          /\ Respond("createStock", NoReq, 401)
          /\ UNCHANGED stocks
       \/ \E utype \in UserTypeInputs, name \in StockNameInputs :
            LET req == [utype |-> utype, name |-> name]
            IN  IF checkCompanyAuthorization(utype) = 0
                THEN Respond("createStock", req, 401) /\ UNCHANGED stocks
                ELSE IF HasStock("order", name)
                THEN Respond("createStock", req, 400) /\ UNCHANGED stocks
                ELSE /\ stocks' = [stocks EXCEPT !["order"] = Append(@, name)]
                     /\ Respond("createStock", req, 200)
    /\ UNCHANGED <<books, wallet, holdings, history, pc, cur, pre, nextId, channel, store>>

\* POST /setup/createStock as the gateway routes it, to the wallet service's
\* createStock: the handler reads no user type; stock_name is UNIQUE
WalletCreateStock ==
    /\ \E utype \in UserTypeInputs, name \in StockNameInputs :
         LET req == [utype |-> utype, name |-> name]
         IN  IF name = 0
             THEN Respond("walletCreateStock", req, 400) /\ UNCHANGED stocks
             ELSE IF HasStock("wallet", name)
             THEN Respond("walletCreateStock", req, 500) /\ UNCHANGED stocks
             ELSE /\ stocks' = [stocks EXCEPT !["wallet"] = Append(@, name)]
                  /\ Respond("walletCreateStock", req, 200)
    /\ UNCHANGED <<books, wallet, holdings, history, pc, cur, pre, nextId, channel, store>>

NextServices ==
    \/ PostAddMoneyToWallet
    \/ PostRecordStockTransaction
    \/ CreateStock
    \/ WalletCreateStock

SpecServices == Init /\ [][NextServices]_vars

\* ------------------------------------------------------- derived quantities
InTrade == pc # "idle"

Buys(s) == books[s].Buys
Sells(s) == books[s].Sells

RECURSIVE SumQty(_)
SumQty(orders) == IF orders = <<>> THEN 0 ELSE Head(orders).qty + SumQty(Tail(orders))

RECURSIVE SumHoldings(_, _, _)
SumHoldings(h, s, U) ==
    IF U = {} THEN 0
    ELSE LET u == CHOOSE x \in U : TRUE IN h[u][s] + SumHoldings(h, s, U \ {u})

TotalIssued(s) == NumUsers * InitShares

\* wallets and holdings after the full transfer of the running trade
FullWallet ==
    addMoneyToWallet(deductMoneyFromWallet(pre.wallet, CurBuy.user, cur.cost),
                     CurSell.user, cur.cost)
FullHoldings ==
    updateStockPortfolio(
        updateStockPortfolio(pre.holdings, CurSell.user, cur.stock, -cur.qty),
        CurBuy.user, cur.stock, cur.qty)

\* ------------------------------------------------------------------ claims

\* C1 (as the claim states it): while the order that just arrived trades, the
\* resting order it trades with has the best price among the resting orders
\* with remaining quantity that it can match: the lowest ask for an arriving
\* buy, the highest bid for an arriving sell.  Stated for resting LIMIT
\* orders, whose price order is not in doubt.
C1_PricePriority ==
    InTrade =>
        /\ (CurBuy.id = cur.taker /\ CurSell.otype = "LIMIT") =>
              \A k \in DOMAIN Sells(cur.stock) :
                  LET r == Sells(cur.stock)[k]
                  IN  (r.qty > 0 /\ r.otype = "LIMIT" /\ canMatch(CurBuy, r))
                          => CurSell.price <= r.price
        /\ (CurSell.id = cur.taker /\ CurBuy.otype = "LIMIT") =>
              \A k \in DOMAIN Buys(cur.stock) :
                  LET r == Buys(cur.stock)[k]
                  IN  (r.qty > 0 /\ r.otype = "LIMIT" /\ canMatch(r, CurSell))
                          => CurBuy.price >= r.price

C3_SettlementAtomic ==
    (pc = "applyTrade" /\ ~cur.compFailed /\ CurBuy.user # CurSell.user) =>
        \/ wallet = pre.wallet /\ holdings = pre.holdings
        \/ wallet = FullWallet /\ holdings = FullHoldings

\* C4 (as the claim states it): in the step that follows a failed
\* executeTrade, both orders stay in the book with their pre-trade remaining
\* quantity and status, and no history row is written.  Stated for trades
\* with a LIMIT order in them.
HasOrder(orders, o) == \E k \in DOMAIN orders : orders[k] = o

C4_RollbackKeepsOrders ==
    [][(pc = "applyTrade" /\ cur.err
            /\ (CurBuy.otype = "LIMIT" \/ CurSell.otype = "LIMIT")) =>
          /\ HasOrder(books'[cur.stock].Buys, CurBuy)
          /\ HasOrder(books'[cur.stock].Sells, CurSell)
          /\ history' = history]_vars

\* C5: whenever handleOrderEvent has returned, every entry of every book has
\* remaining quantity > 0 and status IN_PROGRESS or PARTIALLY_COMPLETE.
RestingOk(o) == o.qty > 0 /\ o.status \in {"IN_PROGRESS", "PARTIALLY_COMPLETE"}

C5_BookInvariant ==
    pc = "idle" =>
        \A s \in Stocks :
            /\ \A k \in DOMAIN Buys(s) : RestingOk(Buys(s)[k])
            /\ \A k \in DOMAIN Sells(s) : RestingOk(Sells(s)[k])

\* C5 witness: after an event that traded, a partially filled order rests
\* (the order it traded with was completed and has left the book).
C5_Witness ==
    /\ pc = "idle"
    /\ Len(history) > 0
    /\ \E s \in Stocks : \E k \in DOMAIN Sells(s) :
          Sells(s)[k].status = "PARTIALLY_COMPLETE"

\* C6: the two orders of every executed trade satisfy the cross condition:
\* one of them is MARKET, or the buy's limit is at least the sell's limit.
C6_CrossCondition ==
    InTrade =>
        \/ CurBuy.otype = "MARKET"
        \/ CurSell.otype = "MARKET"
        \/ CurBuy.price >= CurSell.price

\* C6 witness: a trade between two LIMIT orders is being settled while a
\* LIMIT sell priced above the bid rests untouched in the same book.
C6_Witness ==
    /\ InTrade
    /\ CurBuy.otype = "LIMIT" /\ CurSell.otype = "LIMIT"
    /\ \E k \in DOMAIN Sells(cur.stock) :
          LET r == Sells(cur.stock)[k]
          IN  r.otype = "LIMIT" /\ r.price > CurBuy.price /\ r.qty > 0

\* C7 (as the claim states it): no trade is executed between a MARKET buy and
\* a MARKET sell.
C7_NoMarketMarketTrade ==
    InTrade => ~(CurBuy.otype = "MARKET" /\ CurSell.otype = "MARKET")

\* C8: the quantity of every trade is min(buy remaining, sell remaining) at
\* the match; the step that applies the trade lowers both orders' remaining
\* quantity, and so both sides' totals, by exactly that quantity; no
\* remaining quantity is ever negative.
RemainingOf(orders, id) ==
    IF \E k \in DOMAIN orders : orders[k].id = id
    THEN orders[CHOOSE k \in DOMAIN orders : orders[k].id = id].qty
    ELSE 0

C8_QtyIsMin ==
    InTrade =>
        /\ cur.qty <= CurBuy.qty /\ cur.qty <= CurSell.qty
        /\ cur.qty = CurBuy.qty \/ cur.qty = CurSell.qty

C8_NoNegative ==
    \A s \in Stocks :
        /\ \A k \in DOMAIN Buys(s) : Buys(s)[k].qty >= 0
        /\ \A k \in DOMAIN Sells(s) : Sells(s)[k].qty >= 0

C8_TradeQuantity ==
    /\ []C8_QtyIsMin
    /\ []C8_NoNegative
    /\ [][pc = "applyTrade" =>
            /\ RemainingOf(books'[cur.stock].Buys, CurBuy.id) = CurBuy.qty - cur.qty
            /\ RemainingOf(books'[cur.stock].Sells, CurSell.id) = CurSell.qty - cur.qty
            /\ SumQty(Buys(cur.stock)) - SumQty(books'[cur.stock].Buys) = cur.qty
            /\ SumQty(Sells(cur.stock)) - SumQty(books'[cur.stock].Sells) = cur.qty]_vars

\* C8 witness: a trade whose two orders have different remaining quantities
\* is about to be applied (a partial fill).
C8_Witness ==
    /\ pc = "applyTrade"
    /\ CurBuy.qty # CurSell.qty
    /\ cur.qty > 0

\* C9: while a trade is executed, no order of the same side and the same
\* price that was placed earlier than the traded one, and that the other
\* order of the trade can match, has remaining quantity.
C9_TimePriority ==
    InTrade =>
        /\ \A k \in DOMAIN Sells(cur.stock) :
              LET r == Sells(cur.stock)[k]
              IN  (r.price = CurSell.price /\ r.created < CurSell.created
                   /\ canMatch(CurBuy, r)) => r.qty = 0
        /\ \A k \in DOMAIN Buys(cur.stock) :
              LET r == Buys(cur.stock)[k]
              IN  (r.price = CurBuy.price /\ r.created < CurBuy.created
                   /\ canMatch(r, CurSell)) => r.qty = 0

\* C9 witness: an arriving buy trades with the earlier of two resting sells
\* of the same price while the later one waits with its quantity.
C9_Witness ==
    /\ InTrade
    /\ CurBuy.id = cur.taker
    /\ \E k \in DOMAIN Sells(cur.stock) :
          LET r == Sells(cur.stock)[k]
          IN  /\ r.price = CurSell.price /\ r.otype = "LIMIT"
              /\ r.created > CurSell.created /\ r.qty > 0

\* C10 (as the claim states it): for every stock, the holdings of all users
\* plus the remaining quantities of the resting SELL orders add up to the
\* total issued.
C10_ShareConservation ==
    \A s \in Stocks :
        SumHoldings(holdings, s, Users) + SumQty(Sells(s)) = TotalIssued(s)

\* C11 (as the claim states it): when executeTrade has returned and no
\* rollback call failed, the cash over all wallets is what it was when the
\* trade began (a trade moves cash, only deposits add any), and a trade whose
\* settlement failed leaves every wallet balance as before.
RECURSIVE TotalCash(_, _)
TotalCash(w, U) ==
    IF U = {} THEN 0
    ELSE LET u == CHOOSE x \in U : TRUE IN w[u] + TotalCash(w, U \ {u})

C11_CashConservation ==
    (pc = "applyTrade" /\ ~cur.compFailed) =>
        /\ TotalCash(wallet, Users) = TotalCash(pre.wallet, Users)
        /\ cur.err => wallet = pre.wallet

\* C12 (as the claim states it): over placements, matches, cancels and
\* redelivered messages, no step lets an order's status move backwards along
\* IN_PROGRESS -> PARTIALLY_COMPLETE -> COMPLETED/CANCELLED or its remaining
\* quantity grow, and an order that has left the books (completed or
\* cancelled) does not come back.
StatusRank(st) ==
    CASE st = "IN_PROGRESS" -> 0
      [] st = "PARTIALLY_COMPLETE" -> 1
      [] OTHER -> 2

Entries(bks, id) ==
    UNION {{bks[s].Buys[k] : k \in {x \in DOMAIN bks[s].Buys : bks[s].Buys[x].id = id}}
           \cup {bks[s].Sells[k] : k \in {x \in DOMAIN bks[s].Sells : bks[s].Sells[x].id = id}}
           : s \in Stocks}

C12_OrderMonotone ==
    [][\A id \in BusOrderIds :
          /\ \A e \in Entries(books, id) : \A f \in Entries(books', id) :
                /\ StatusRank(f.status) >= StatusRank(e.status)
                /\ f.qty <= e.qty
          /\ (id < nextId /\ Entries(books, id) = {}) => Entries(books', id) = {}]_vars

\* C13 (as the claim states it): however often a new order's message is
\* delivered, no stock_tx_id is held by two entries of a book.
NoDuplicate(orders) ==
    \A k, l \in DOMAIN orders : k # l => orders[k].id # orders[l].id

C13_ReplayDedup ==
    \A s \in Stocks : NoDuplicate(Buys(s)) /\ NoDuplicate(Sells(s))

\* ---- what the channel has delivered
IsCancel(e) == e.status = "CANCELLED"

\* the step delivers a cancel of id
CancelStep(id) == channel' = Append(channel, CancelEvent(id))

\* ids whose cancel was delivered after their new-order message
CancelledIds ==
    {id \in BusOrderIds :
        \E i, j \in DOMAIN channel :
            /\ i < j
            /\ channel[i].id = id /\ ~IsCancel(channel[i])
            /\ channel[j] = CancelEvent(id)}

EngineUnchanged == UNCHANGED <<books, wallet, holdings, history, pc, cur, pre>>

\* C14: a cancel of an order delivered right after a cancel of the same
\* order changes nothing: books, wallets, holdings, history and the engine's
\* position are those left by the first cancel.
C14_CancelIdempotent ==
    [][\A id \in BusOrderIds :
          (channel # <<>> /\ channel[Len(channel)] = CancelEvent(id) /\ CancelStep(id))
              => EngineUnchanged]_vars

\* C14 witness: order 1 was resting when its cancel was delivered, and the
\* same cancel has been delivered a second time.
C14_Witness ==
    /\ Len(channel) >= 4
    /\ ~IsCancel(channel[1]) /\ ~IsCancel(channel[2])
    /\ channel[1].stock = channel[2].stock
    /\ channel[1].isBuy = channel[2].isBuy
    /\ channel[3] = CancelEvent(1)
    /\ channel[4] = CancelEvent(1)
    /\ Entries(books, 2) # {}

\* C15: once a cancel of X has been delivered (after X's own message), no
\* book holds an entry with id X and X is in no trade; the cancel step
\* itself leaves no entry of X; and a cancel of an X that no book holds
\* changes no book and starts no trade.
C15_NoResidual ==
    \A id \in CancelledIds :
        /\ Entries(books, id) = {}
        /\ InTrade => (CurBuy.id # id /\ CurSell.id # id)

C15_CancelStep ==
    \A id \in BusOrderIds :
        CancelStep(id) =>
            /\ Entries(books', id) = {}
            /\ Entries(books, id) = {} => EngineUnchanged

C15_CancelRemovesResidual ==
    /\ []C15_NoResidual
    /\ [][C15_CancelStep]_vars

\* C15 witness: a LIMIT sell rested, its cancel was delivered, and a MARKET
\* buy of the same stock that arrived afterwards rests without a trade.
C15_Witness ==
    /\ pc = "idle"
    /\ Len(channel) = 3
    /\ channel[1].otype = "LIMIT" /\ ~channel[1].isBuy
    /\ channel[2] = CancelEvent(1)
    /\ channel[3].otype = "MARKET" /\ channel[3].isBuy
    /\ channel[3].stock = channel[1].stock
    /\ Buys(channel[1].stock) = <<channel[3]>>
    /\ Sells(channel[1].stock) = <<>>

\* C16: the engine handles the MARKET buy and the cancel of the resting
\* LIMIT sell one after the other.  A trade of a MARKET buy with a LIMIT sell
\* is never with a sell whose cancel was delivered before, and its quantity
\* is the smaller remaining quantity; a cancel step takes the cancelled
\* order's entries out of the books and leaves every other entry, every
\* wallet, every holding and the history (the trades made) as they are.
Others(orders, id) == SelectSeq(orders, LAMBDA o : o.id # id)

C16_NoCancelledTrade ==
    (InTrade /\ CurBuy.otype = "MARKET" /\ CurSell.otype = "LIMIT") =>
        /\ CurSell.id \notin CancelledIds
        /\ cur.qty <= CurBuy.qty /\ cur.qty <= CurSell.qty
        /\ cur.qty \in {CurBuy.qty, CurSell.qty}

C16_CancelKeepsTrades ==
    \A id \in BusOrderIds :
        CancelStep(id) =>
            /\ UNCHANGED <<wallet, holdings, history>>
            /\ pc = "idle" /\ pc' = "idle"
            /\ \A s \in Stocks :
                  /\ books'[s].Buys = Others(books[s].Buys, id)
                  /\ books'[s].Sells = Others(books[s].Sells, id)

C16_CancelMatchRace ==
    /\ []C16_NoCancelledTrade
    /\ [][C16_CancelKeepsTrades]_vars

\* C16 witness: the buy was handled first: a MARKET buy of 1 traded with a
\* resting LIMIT sell of 2 of another user, the shares moved, and the cancel
\* delivered next removed the seller's residual only.
C16_Witness ==
    /\ pc = "idle"
    /\ Len(channel) = 3
    /\ channel[1].otype = "LIMIT" /\ ~channel[1].isBuy /\ channel[1].qty = 2
    /\ channel[2].otype = "MARKET" /\ channel[2].isBuy /\ channel[2].qty = 1
    /\ channel[2].stock = channel[1].stock
    /\ channel[2].user # channel[1].user
    /\ channel[3] = CancelEvent(1)
    /\ holdings[channel[2].user][channel[1].stock] = InitShares + 1
    /\ holdings[channel[1].user][channel[1].stock] = InitShares - 1
    /\ wallet[channel[1].user] = InitCash + channel[1].price
    /\ Sells(channel[1].stock) = <<>>

\* C17 (as the claim states it): the history rows written when a settled
\* trade is applied are child orders of its legs: each carries the traded
\* quantity, the execution price and a stock_tx_id of its own, not the id of
\* the order it was filled from.
NewRows == SubSeq(history', Len(history) + 1, Len(history'))

C17_ChildPerLeg ==
    [][(pc = "applyTrade" /\ ~cur.err) =>
          \A k \in DOMAIN NewRows :
              /\ NewRows[k].qty = cur.qty
              /\ NewRows[k].price * cur.qty = cur.cost
              /\ NewRows[k].id \notin {CurBuy.id, CurSell.id}]_vars

\* C18: when all four steps of executeTrade succeeded for qty shares at
\* price p, the buyer's wallet is lower by qty * p, the seller's higher by
\* qty * p, the seller's holding of the stock lower by qty, the buyer's
\* higher by qty, and every other wallet and holding is as before the trade.
Delta(u, from, to, amt) ==
    (IF u = to THEN amt ELSE 0) - (IF u = from THEN amt ELSE 0)

C18_SuccessfulSettlement ==
    (pc = "applyTrade" /\ ~cur.err) =>
        /\ cur.cost = cur.qty * tradePrice(CurBuy, CurSell)
        /\ \A u \in Users :
              wallet[u] = pre.wallet[u] + Delta(u, CurBuy.user, CurSell.user, cur.cost)
        /\ \A u \in Users : \A s \in Stocks :
              holdings[u][s] = pre.holdings[u][s]
                  + (IF s = cur.stock
                     THEN Delta(u, CurSell.user, CurBuy.user, cur.qty) ELSE 0)

\* C18 witness: a trade of 2 shares between two different users has settled
\* with all four steps and is about to be applied.
C18_Witness ==
    /\ pc = "applyTrade"
    /\ ~cur.err
    /\ CurBuy.user # CurSell.user
    /\ cur.qty = 2
    /\ cur.cost > 0

\* C19 (as the claim states it): after an accepted placement the response
\* carries the stock_tx_id of the order just stored, and for every stored
\* IN_PROGRESS order a new-order message is on the channel.
C19_PlacementProtocol ==
    /\ (resp.op = "place" /\ resp.code = 200) =>
           (store # <<>> /\ resp.data = store[Len(store)].id)
    /\ \A k \in DOMAIN store :
           store[k].status = "IN_PROGRESS" =>
               \E m \in DOMAIN channel : channel[m].id = store[k].id

\* C20: a placement with quantity <= 0, with type LIMIT and price <= 0, with
\* type MARKET and a price other than 0, or with a type that is neither
\* MARKET nor LIMIT (in any letter case) is answered with an error and
\* stores nothing; so every stored order has quantity > 0, type MARKET with
\* price 0 or type LIMIT with price > 0.
IsMarketType(t) == t \in {"MARKET", "market"}
IsLimitType(t) == t \in {"LIMIT", "Limit"}

InvalidPlacement(r) ==
    \/ r.qty <= 0
    \/ IsLimitType(r.otype) /\ r.price <= 0
    \/ IsMarketType(r.otype) /\ r.price # 0
    \/ ~IsMarketType(r.otype) /\ ~IsLimitType(r.otype)

C20_StoredValid ==
    \A k \in DOMAIN store :
        /\ store[k].qty > 0
        /\ \/ store[k].otype = "MARKET" /\ store[k].price = 0
           \/ store[k].otype = "LIMIT" /\ store[k].price > 0

C20_Rejected ==
    (resp'.op = "place" /\ InvalidPlacement(resp'.req)) =>
        /\ resp'.code \in {400, 401}
        /\ ~resp'.success
        /\ store' = store

C20_PlacementValidation ==
    /\ []C20_StoredValid
    /\ [][C20_Rejected]_vars

\* C20 witness: with an order already stored, a LIMIT placement with a good
\* quantity and price 0 has been answered 400.
C20_Witness ==
    /\ store # <<>>
    /\ resp.op = "place"
    /\ resp.code = 400
    /\ resp.req.otype = "LIMIT"
    /\ resp.req.qty > 0
    /\ resp.req.price = 0

\* ---- the Order Store
\* the stored order with this id
StoredOrders(id) == {k \in DOMAIN store : store[k].id = id}

OwnedBy(id, u) == \E k \in StoredOrders(id) : store[k].user = u

\* C21 (as the claim states it): when the owner's cancel of a stored live
\* order has been answered with success, the order's stored status is
\* CANCELLED and a cancel message for it is on the channel.
C21_CancelLiveOrder ==
    (resp.op = "cancel" /\ resp.code = 200 /\ OwnedBy(resp.req.id, resp.req.user)) =>
        /\ \A k \in StoredOrders(resp.req.id) : store[k].status = "CANCELLED"
        /\ \E m \in DOMAIN channel : channel[m] = CancelEvent(resp.req.id)

\* C22 (as the claim states it): a cancel for a stock_tx_id under which the
\* caller owns no live order (none stored, another user's, or one that is
\* COMPLETED or CANCELLED) is answered with an error and leaves the Order
\* Store and the channel as they are.
HasLiveOrder(id, u) ==
    \E k \in StoredOrders(id) :
        /\ store[k].user = u
        /\ store[k].status \in {"IN_PROGRESS", "PARTIALLY_COMPLETE"}

C22_CancelErrors ==
    [][(resp'.op = "cancel" /\ resp'.req # NoReq
            /\ ~HasLiveOrder(resp'.req.id, resp'.req.user)) =>
          /\ ~resp'.success
          /\ store' = store
          /\ channel' = channel]_vars

\* C23 (as the claim states it): for every user and stock, the remaining
\* quantities of the user's open SELL orders in the Order Store add up to at
\* most the shares the user holds of that stock.
RECURSIVE OpenSellQty(_, _, _)
OpenSellQty(rows, u, s) ==
    IF rows = <<>> THEN 0
    ELSE (IF /\ Head(rows).user = u /\ Head(rows).stock = s /\ ~Head(rows).isBuy
             /\ Head(rows).status \in {"IN_PROGRESS", "PARTIALLY_COMPLETE"}
          THEN Head(rows).qty ELSE 0) + OpenSellQty(Tail(rows), u, s)

C23_NoDoubleSell ==
    \A u \in Users : \A s \in Stocks :
        OpenSellQty(store, u, s) <= holdings[u][s]

\* C24 (as the claim states it): a credit that repeats the request before it
\* (the same user, the same amount, answered the same) changes no balance.
C24_RepeatedCallOnce ==
    [][(resp.op = "addMoney" /\ resp.code = 200 /\ resp' = resp) =>
          wallet' = wallet]_vars

\* C25 (as the claim states it): the history store never holds two rows with
\* one stock_tx_id.
C25_OneRowPerId ==
    \A id \in HistIds :
        Cardinality({k \in DOMAIN history : history[k].id = id}) <= 1

\* C27 (as the claim states it): a createStock call that is answered with
\* success was made with user type COMPANY, and a call made with another user
\* type leaves the stocks tables as they are.
IsCreateStock(r) == r.op \in {"createStock", "walletCreateStock"} /\ r.req # NoReq

C27_CompanyOnly ==
    [][(IsCreateStock(resp') /\ resp'.req.utype # "COMPANY") =>
          (~resp'.success /\ stocks' = stocks)]_vars

\* C26 (as the claim states it): a restart of the idle engine (a step that
\* delivers no message and runs no trade) leaves every stock's book holding
\* the resting orders it held before, in the same order.
C26_RestartKeepsBooks ==
    [][(pc = "idle" /\ pc' = "idle" /\ channel' = channel) => books' = books]_vars

\* ---- the settlement saga
Buyer == CurBuy.user
Seller == CurSell.user

\* C28: a trade's settlement starts with the debit of the buyer; the removal
\* of the seller's shares is issued only after the debit succeeded, the
\* addition of the buyer's shares only after the removal succeeded, the credit
\* of the seller only after the addition succeeded, each step changing exactly
\* what it names; when the debit fails the settlement ends there and no
\* wallet or holding has changed since the trade began.
C28_Step1FailureClean ==
    (pc = "applyTrade" /\ cur.step = 1) =>
        (wallet = pre.wallet /\ holdings = pre.holdings)

C28_Steps ==
    /\ (pc' = "deductBuyer" => pc \in {"idle", "applyTrade"})
    /\ (pc' = "removeSellerShares" =>
          /\ pc = "deductBuyer" /\ ~cur'.err
          /\ wallet' = [wallet EXCEPT ![Buyer] = @ - cur.cost]
          /\ holdings' = holdings)
    /\ (pc' = "addBuyerShares" =>
          /\ pc = "removeSellerShares" /\ ~cur'.err
          /\ wallet' = wallet
          /\ holdings' = [holdings EXCEPT ![Seller][cur.stock] = @ - cur.qty])
    /\ (pc' = "creditSeller" =>
          /\ pc = "addBuyerShares" /\ ~cur'.err
          /\ wallet' = wallet
          /\ holdings' = [holdings EXCEPT ![Buyer][cur.stock] = @ + cur.qty])
    /\ (pc = "creditSeller" /\ pc' = "applyTrade" =>
          /\ ~cur'.err
          /\ wallet' = [wallet EXCEPT ![Seller] = @ + cur.cost]
          /\ holdings' = holdings)
    /\ (pc = "deductBuyer" /\ pc' # "removeSellerShares" =>
          /\ pc' = "applyTrade" /\ cur'.step = 1 /\ cur'.comp = <<>>
          /\ wallet' = wallet /\ holdings' = holdings)

C28_SagaStepOrder == []C28_Step1FailureClean /\ [][C28_Steps]_vars

\* C28 witness: the debit of the buyer has failed in a trade that follows a
\* settlement which moved cash and shares.
C28_Witness ==
    /\ pc = "applyTrade"
    /\ cur.step = 1
    /\ pre.wallet # [u \in Users |-> InitCash]
    /\ pre.holdings # [u \in Users |-> [s \in Stocks |-> InitShares]]

\* C29: when the removal of the seller's shares fails, the rollback is the
\* credit of qty*price to the buyer; when the addition of the buyer's shares
\* fails, the rollback is that credit and the return of qty shares to the
\* seller; after either failure no later step is issued, and once the
\* rollback calls have succeeded every wallet and holding is as before the
\* trade.
C29_Restored ==
    (pc = "applyTrade" /\ cur.step \in {2, 3} /\ ~cur.compFailed) =>
        (wallet = pre.wallet /\ holdings = pre.holdings)

C29_Rollback ==
    /\ (pc = "removeSellerShares" /\ pc' # "addBuyerShares" =>
          /\ pc' = "compensate" /\ cur'.step = 2
          /\ cur'.comp = <<callAddMoney(Buyer, cur.cost)>>
          /\ wallet' = wallet /\ holdings' = holdings)
    /\ (pc = "addBuyerShares" /\ pc' # "creditSeller" =>
          /\ pc' = "compensate" /\ cur'.step = 3
          /\ Len(cur'.comp) = 2
          /\ {cur'.comp[k] : k \in 1..2} =
                {callAddMoney(Buyer, cur.cost),
                 callUpdatePortfolio(Seller, cur.stock, cur.qty)}
          /\ wallet' = wallet /\ holdings' = holdings)
    /\ (pc = "compensate" =>
          /\ pc' \in {"compensate", "applyTrade"}
          /\ cur'.comp = Tail(cur.comp)
          /\ cur'.step = cur.step)

C29_CompensateStep2And3 == []C29_Restored /\ [][C29_Rollback]_vars

\* C29 witness: the addition of the buyer's shares failed in a trade with a
\* positive cost between two users, and both rollback calls succeeded.
C29_Witness ==
    /\ pc = "applyTrade"
    /\ cur.step = 3
    /\ ~cur.compFailed
    /\ cur.cost > 0
    /\ Buyer # Seller

\* C30 (as the claim states it): when the credit of the seller failed and the
\* rollback calls succeeded, the buyer's balance and every holding are as
\* before the trade.
C30_Step4Restored ==
    (pc = "applyTrade" /\ cur.step = 4 /\ ~cur.compFailed) =>
        (wallet[Buyer] = pre.wallet[Buyer] /\ holdings = pre.holdings)

\* C31 (as the claim states it): compensation is retried until it succeeds,
\* so executeTrade does not return from a failed step 2 or step 3 before the
\* rollback is complete: when it has returned, every wallet and holding is as
\* before the trade.
C31_NoPartialState ==
    (pc = "applyTrade" /\ cur.step \in {2, 3}) =>
        (wallet = pre.wallet /\ holdings = pre.holdings)

\* C32 (as the claim states it): while a wallet or portfolio call of a trade
\* is outstanding and an order event is still to come, the engine can take
\* that event.
C32_NonBlockingHandoff ==
    (InTrade /\ nextId <= MaxOrders) => ENABLED HandleNewOrder

\* ---- statuses after a trade
\* the ids of the entries that still have quantity, in book order
RECURSIVE LiveIds(_)
LiveIds(orders) ==
    IF orders = <<>> THEN <<>>
    ELSE IF Head(orders).qty > 0 THEN <<Head(orders).id>> \o LiveIds(Tail(orders))
    ELSE LiveIds(Tail(orders))

RECURSIVE WithoutId(_, _)
WithoutId(ids, id) ==
    IF ids = <<>> THEN <<>>
    ELSE IF Head(ids) = id THEN WithoutId(Tail(ids), id)
    ELSE <<Head(ids)>> \o WithoutId(Tail(ids), id)

RowsOf(rows, id) == Cardinality({k \in DOMAIN rows : rows[k].id = id})

EntriesOf(orders, id) == {k \in DOMAIN orders : orders[k].id = id}

\* what the step that applies a trade does to the order o of one side
\* (before: its side before the step, after: its side after the step)
PostTradeRule(o, before, after) ==
    IF o.qty - cur.qty = 0
    THEN /\ \A k \in EntriesOf(after, o.id) :
               after[k].status = "COMPLETED" /\ after[k].qty = 0
         /\ pc' = "idle" => EntriesOf(after, o.id) = {}
         /\ LiveIds(after) = WithoutId(LiveIds(before), o.id)
         /\ RowsOf(NewRows, o.id) <= 1
    ELSE /\ EntriesOf(after, o.id) # {}
         /\ \A k \in EntriesOf(after, o.id) :
               after[k].status = "PARTIALLY_COMPLETE" /\ after[k].qty = o.qty - cur.qty
         /\ LiveIds(after) = LiveIds(before)
         /\ RowsOf(NewRows, o.id) = 0

\* C33: the step that applies a trade marks an order whose remaining quantity
\* reached 0 COMPLETED, makes one history call for it (at most one row is
\* added) and the order no longer rests (it is skipped until the event's
\* matching ends and gone from the book then); an order with quantity left is
\* marked PARTIALLY_COMPLETE, gets no history row and keeps its place among
\* the resting orders of its side.  No entry is COMPLETED with quantity left,
\* no COMPLETED entry is in a book between events, and no order has two
\* history rows.
C33_StatusInvariant ==
    /\ \A s \in Stocks :
          /\ \A k \in DOMAIN Buys(s) :
                /\ Buys(s)[k].status = "COMPLETED" => Buys(s)[k].qty = 0
                /\ pc = "idle" => Buys(s)[k].status # "COMPLETED"
          /\ \A k \in DOMAIN Sells(s) :
                /\ Sells(s)[k].status = "COMPLETED" => Sells(s)[k].qty = 0
                /\ pc = "idle" => Sells(s)[k].status # "COMPLETED"
    /\ \A k \in DOMAIN history :
          history[k].qty = 0 /\ RowsOf(history, history[k].id) = 1

C33_ApplyStep ==
    pc = "applyTrade" =>
        /\ PostTradeRule(CurBuy, Buys(cur.stock), books'[cur.stock].Buys)
        /\ PostTradeRule(CurSell, Sells(cur.stock), books'[cur.stock].Sells)
        /\ \A k \in DOMAIN NewRows : NewRows[k].id \in {CurBuy.id, CurSell.id}
        /\ SubSeq(history', 1, Len(history)) = history

C33_PostTradeStatus == []C33_StatusInvariant /\ [][C33_ApplyStep]_vars

\* C33 witness: a trade that completed one order and left the other with
\* quantity has been applied: the completed order has its history row and the
\* other rests PARTIALLY_COMPLETE.
C33_Witness ==
    /\ pc = "idle"
    /\ Len(history) = 1
    /\ \E s \in Stocks : \E k \in DOMAIN Buys(s) :
          Buys(s)[k].status = "PARTIALLY_COMPLETE"

\* the cross condition: one of the two is MARKET, or the bid reaches the ask
Crosses(b, a) == b.otype = "MARKET" \/ a.otype = "MARKET" \/ b.price >= a.price

\* C34: whenever the engine has finished handling an event, no stock's book
\* holds a buy and a sell, both with remaining quantity, that satisfy the
\* cross condition (whether the settlements of the event's trades succeeded
\* or failed).
C34_UncrossedBook ==
    pc = "idle" =>
        \A s \in Stocks :
            \A i \in DOMAIN Buys(s) : \A j \in DOMAIN Sells(s) :
                ~(Buys(s)[i].qty > 0 /\ Sells(s)[j].qty > 0
                    /\ Crosses(Buys(s)[i], Sells(s)[j]))

\* C34 witness: after an event whose trade completed an order, a buy and a
\* sell of one stock rest together (the bid below the ask).
C34_Witness ==
    /\ pc = "idle"
    /\ Len(history) > 0
    /\ \E s \in Stocks : Buys(s) # <<>> /\ Sells(s) # <<>>

\* ---- MARKET orders that find no opposing order
\* the order of message k rests in its book exactly as it arrived
Untouched(k) ==
    LET o == channel[k]
        side == IF o.isBuy THEN Buys(o.stock) ELSE Sells(o.stock)
    IN  \E n \in DOMAIN side : side[n] = o

Opposing(k, l) ==
    channel[l].stock = channel[k].stock /\ channel[l].isBuy # channel[k].isBuy

SameSide(k, l) ==
    channel[l].stock = channel[k].stock /\ channel[l].isBuy = channel[k].isBuy

Resting(l) ==
    LET o == channel[l]
        side == IF o.isBuy THEN Buys(o.stock) ELSE Sells(o.stock)
    IN  \E n \in DOMAIN side : side[n].id = o.id /\ side[n].qty > 0

\* a MARKET order that no opposing order has met rests with its full quantity
C35_Rests ==
    pc = "idle" =>
        \A k \in DOMAIN channel :
            (channel[k].otype = "MARKET"
                /\ \A l \in DOMAIN channel : ~Opposing(k, l)) => Untouched(k)

ChangedBooks == {s \in Stocks : books'[s] # books[s]}

C36_SameStock ==
    /\ \A s \in Stocks :
          /\ \A k \in DOMAIN Buys(s) : Buys(s)[k].stock = s
          /\ \A k \in DOMAIN Sells(s) : Sells(s)[k].stock = s
    /\ InTrade => (CurBuy.stock = cur.stock /\ CurSell.stock = cur.stock)

C36_OtherBooksKept ==
    /\ nextId' # nextId =>
          /\ Cardinality(ChangedBooks) <= 1
          /\ pc' # "idle" => ChangedBooks \subseteq {cur'.stock}
    /\ InTrade => ChangedBooks \subseteq {cur.stock}

\* C36: every entry of a stock's book carries that stock_id, so every trade
\* pairs a buy and a sell of one stock; the handling of a new order changes
\* the book of its own stock only, in the step that takes the order and in
\* every step of the trades that follow.
C36_PerStockIsolation == []C36_SameStock /\ [][C36_OtherBooksKept]_vars

\* C36 witness: a trade in stock 2 is being settled while orders rest in the
\* book of stock 1.
C36_Witness ==
    /\ InTrade
    /\ cur.stock = 2
    /\ Buys(1) # <<>> \/ Sells(1) # <<>>

\* ---- the frame of a cancel
\* how many of the first k entries carry id
Before(orders, k, id) == Cardinality({n \in 1..k : orders[n].id = id})

\* after is before with the entries of id taken out: every other entry is
\* the same record, moved up by the number of removed entries ahead of it
KeptInPlace(before, after, id) ==
    /\ Len(after) = Len(before) - Before(before, Len(before), id)
    /\ \A k \in DOMAIN before :
          before[k].id # id => after[k - Before(before, k, id)] = before[k]

C37_CancelStep ==
    \A id \in BusOrderIds :
        CancelStep(id) =>
            /\ \A s \in Stocks :
                  /\ KeptInPlace(Buys(s), books'[s].Buys, id)
                  /\ KeptInPlace(Sells(s), books'[s].Sells, id)
            /\ pc = "idle"
            /\ UNCHANGED <<wallet, holdings, history, pc, cur, pre>>

\* C37: the step that handles a cancel of stock_tx_id X takes the entries
\* with id X out of every book; every other entry of every book is the same
\* record (quantity, status) in the same order on its side; no trade is
\* started, and no wallet, holding or history row changes.
C37_CancelFrame == [][C37_CancelStep]_vars

\* C37 witness: two orders rested on one side of a book, the first was
\* cancelled and the second rests alone, as it arrived.
C37_Witness ==
    /\ pc = "idle"
    /\ Len(channel) = 3
    /\ ~IsCancel(channel[1]) /\ ~IsCancel(channel[2])
    /\ channel[2].id = 2
    /\ channel[3] = CancelEvent(1)
    /\ channel[1].isBuy /\ channel[2].isBuy
    /\ Buys(channel[1].stock) = <<channel[2]>>

\* ---- the end of matchOrders
\* within one event the loops only move forward: the next pair traded is
\* later in (i, j) order than the pair just applied
C38_PairsAdvance ==
    (pc = "applyTrade" /\ pc' = "deductBuyer") =>
        /\ cur'.taker = cur.taker
        /\ cur'.i > cur.i \/ (cur'.i = cur.i /\ cur'.j > cur.j)
        /\ Len(books'[cur.stock].Buys) = Len(Buys(cur.stock))
        /\ Len(books'[cur.stock].Sells) = Len(Sells(cur.stock))

C38_TakesNextEvent ==
    (pc = "idle" /\ nextId <= MaxOrders) => ENABLED HandleLiveOrder

\* C38: with every wallet, portfolio and history call returning, the
\* handling of a new order ends: each pair of a buy and a sell is traded at
\* most once per event (the loop position only moves forward over a book of
\* fixed length), the engine gets back to receiving, and it can then take
\* the next event.
C38_MatchingTerminates ==
    /\ [][C38_PairsAdvance]_vars
    /\ []C38_TakesNextEvent
    /\ (InTrade ~> pc = "idle")

\* C38 witness: the second trade of one event is being settled: the first
\* sell of the book was completed by the arriving buy, which now trades with
\* the next sell.
C38_Witness ==
    /\ InTrade
    /\ cur.j > 1
    /\ CurBuy.id = cur.taker
    /\ Sells(cur.stock)[1].status = "COMPLETED"

\* ---- undecodable payloads
\* the step delivers a payload that Unmarshal rejects
IsPayload(e) == "kind" \in DOMAIN e

UndecodableStep ==
    /\ Len(channel') = Len(channel) + 1
    /\ IsPayload(channel'[Len(channel')])

\* C39: the step that handles a payload json.Unmarshal rejects changes no
\* book, starts no trade and changes no wallet, holding or history row; the
\* engine is receiving before and after it.
C39_UndecodableIgnored ==
    [][UndecodableStep =>
          /\ UNCHANGED <<books, wallet, holdings, history, pc, cur, pre>>
          /\ pc' = "idle"]_vars

\* C39 witness: a LIMIT buy rests; a payload that reads as the cancel of that
\* order but has a field Unmarshal rejects was delivered after it, and the
\* order still rests.
C39_Witness ==
    /\ pc = "idle"
    /\ Len(channel) = 2
    /\ ~IsPayload(channel[1])
    /\ channel[1].isBuy /\ channel[1].otype = "LIMIT"
    /\ IsPayload(channel[2])
    /\ channel[2].kind = "mistyped"
    /\ channel[2].o = CancelEvent(1)
    /\ Buys(channel[1].stock) = <<channel[1]>>

====
